---- MODULE Spec2Model ----
(***************************************************************************)
(* Kernel density estimation transform of data-set                         *)
(* (src/src/transform/kde.ts).                                             *)
(*                                                                         *)
(* One invocation transform(dv, options) is modelled as the sequence of    *)
(* its statements, one action per phase, with pc naming the next phase.    *)
(* Numbers are fixed-point: a JavaScript number x is the integer x * Scale *)
(* and NaN is a separate value.                                            *)
(***************************************************************************)
EXTENDS Integers, Sequences, FiniteSets, TLC

VARIABLES
    rows,          \* dv.rows
    rows0,         \* dv.rows when transform was called (history)
    userOptions,   \* the options record the caller passed
    options,       \* options after assign({}, DEFAULT_OPTIONS, options)
    pc,            \* next phase of transform, or "done" / "failed" / "diverged"
    err,           \* the error that ended the invocation, "" when none
    extent,        \* local extent
    bw,            \* local bw
    seriesValues,  \* local seriesValues
    groups,        \* local groups, in forIn order
    gi,            \* index of the group the forIn loop is at
    fi,            \* index of the field the inner each loop is at
    method,        \* local method
    result         \* local result

vars == <<rows, rows0, userOptions, options, pc, err, extent, bw,
          seriesValues, groups, gi, fi, method, result>>

---------------------------------------------------------------------------
(* Bounds of the model.                                                    *)

\* the view holds a subsequence of the first MaxRows rows of SourceRows
MaxRows == 3
\* the caller sets at most MaxOverrides options besides fields
MaxOverrides == 2

---------------------------------------------------------------------------
(* Numbers.                                                                *)

\* fixed-point unit: the integer standing for the number 1
Scale == 100
\* Math.min() of no arguments is Infinity, Math.max() is -Infinity
Infinity == 100000

Abs(x) == IF x < 0 THEN -x ELSE x

NaN == [nan |-> TRUE, v |-> 0]
Number(x) == [nan |-> FALSE, v |-> x]

RECURSIVE SeqMin(_)
SeqMin(s) ==
    IF Len(s) = 0 THEN Infinity
    ELSE LET m == SeqMin(Tail(s)) IN IF Head(s) < m THEN Head(s) ELSE m

RECURSIVE SeqMax(_)
SeqMax(s) ==
    IF Len(s) = 0 THEN -Infinity
    ELSE LET m == SeqMax(Tail(s)) IN IF Head(s) > m THEN Head(s) ELSE m

---------------------------------------------------------------------------
(* Values of row fields: a string, a number or an array of numbers.        *)

StrCell(x) == [t |-> "str", s |-> x, n |-> 0, q |-> <<>>]
NumCell(x) == [t |-> "num", s |-> "", n |-> x, q |-> <<>>]
ArrCell(x) == [t |-> "arr", s |-> "", n |-> 0, q |-> x]

\* row[k] = v
Put(row, k, v) ==
    [x \in (DOMAIN row) \cup {k} |-> IF x = k THEN v ELSE row[x]]

\* row[k].push(x)
Push(row, k, x) ==
    [row EXCEPT ![k] = [@ EXCEPT !.q = Append(@, x)]]

EmptyRow == [x \in {} |-> StrCell("")]

---------------------------------------------------------------------------
(* The view: dv.rows, dv.getColumn, dv.range.                              *)

\* the table the views are cut from
SourceRows ==
    << [g |-> StrCell("b"), v |-> NumCell(Scale), w |-> NumCell(3 * Scale)],
       [g |-> StrCell("a"), v |-> NumCell(3 * Scale)],
       [g |-> StrCell("b"), v |-> NumCell(2 * Scale), w |-> NumCell(0)],
       [g |-> StrCell("a"), v |-> NumCell(3 * Scale), w |-> NumCell(Scale)] >>

NumSourceRows == IF MaxRows < Len(SourceRows) THEN MaxRows ELSE Len(SourceRows)

RECURSIVE SelectRows(_, _)
\* the rows of SourceRows from index i on whose index is in S, in order
SelectRows(S, i) ==
    IF i > Len(SourceRows) THEN <<>>
    ELSE IF i \in S THEN <<SourceRows[i]>> \o SelectRows(S, i + 1)
    ELSE SelectRows(S, i + 1)

\* item[field] as a number: a missing or non-numeric value computes as NaN
Sample(row, field) ==
    IF field \in DOMAIN row /\ row[field].t = "num"
    THEN Number(row[field].n) ELSE NaN

\* dv.getColumn(field)
GetColumn(rs, field) == [i \in 1..Len(rs) |-> Sample(rs[i], field)]

RECURSIVE Observed(_)
\* the numbers of a column, in order
Observed(col) ==
    IF Len(col) = 0 THEN <<>>
    ELSE IF Head(col).nan THEN Observed(Tail(col))
    ELSE <<Head(col).v>> \o Observed(Tail(col))

\* dv.range(field): [min, max] of the observed values, nothing when none
Range(rs, field) ==
    LET obs == Observed(GetColumn(rs, field))
    IN  IF Len(obs) = 0 THEN <<>> ELSE <<SeqMin(obs), SeqMax(obs)>>

---------------------------------------------------------------------------
(* Options.                                                                *)

Absent == [t |-> "absent", q |-> <<>>]
Arr(q) == [t |-> "arr", q |-> q]
NotArr == [t |-> "other", q |-> <<>>]

AbsentNum == [t |-> "absent", n |-> 0]
Num(n) == [t |-> "num", n |-> n]

AbsentMethod == [t |-> "absent", s |-> ""]
MethodName(s) == [t |-> "str", s |-> s]
MethodFn(s) == [t |-> "fn", s |-> s]
MethodOther == [t |-> "other", s |-> ""]

AbsentBw == [t |-> "absent", s |-> "", n |-> 0]
BwName(s) == [t |-> "str", s |-> s, n |-> 0]
BwFn(s) == [t |-> "fn", s |-> s, n |-> 0]
BwNum(n) == [t |-> "num", s |-> "", n |-> n]
BwOther == [t |-> "other", s |-> "", n |-> 0]

\* what a caller may pass under each option
FieldsValues ==
    {Absent, NotArr, Arr(<<>>), Arr(<<"v">>), Arr(<<"v", "w">>), Arr(<<"w", "v">>)}
AsValues ==
    {Absent, NotArr, Arr(<<"key", "y">>), Arr(<<"a", "b", "c", "d">>),
     Arr(<<"name", "x", "density">>), Arr(<<"k", "y", "y">>),
     Arr(<<"g", "y", "size">>)}
MethodValues ==
    {AbsentMethod, MethodName("bogus"), MethodOther, MethodFn("tri")}
BandwidthValues ==
    {AbsentBw, BwName("silverman"), BwName("bogus"), BwNum(0), BwNum(-Scale),
     BwNum(Scale), BwFn("spread"), BwOther}
StepValues == {AbsentNum, Num(Scale), Num(-Scale)}
ExtentValues ==
    {Absent, Arr(<<0, 2 * Scale>>), Arr(<<Scale, Scale>>), Arr(<<2 * Scale, 0>>)}
MinSizeValues == {AbsentNum, Num(0), Num(30)}
GroupByValues == {Absent, Arr(<<"g">>), Arr(<<"h">>)}

\* fields has no default: it is undefined unless the caller sets it
DEFAULT_OPTIONS ==
    [minSize   |-> Num(1),
     as        |-> Arr(<<"key", "y", "size">>),
     fields    |-> Absent,
     extent    |-> Arr(<<>>),
     method    |-> MethodName("gaussian"),
     bandwidth |-> BwName("nrd"),
     step      |-> Num(0),
     groupBy   |-> Arr(<<>>)]

OptionKeys ==
    {"minSize", "as", "fields", "extent", "method", "bandwidth", "step", "groupBy"}

\* assign({}, DEFAULT_OPTIONS, options): an undefined value overrides nothing
Assign(defaults, o) ==
    [k \in OptionKeys |-> IF o[k].t = "absent" THEN defaults[k] ELSE o[k]]

\* the options the caller set, fields apart
Overrides(o) == {k \in OptionKeys \ {"fields"} : o[k].t # "absent"}

KERNEL_METHODS == {"gaussian"}
BANDWIDTH_METHODS == {"nrd", "silverman"}

\* getFields(options)
getFields(o) == o.fields

\* method after method = kernel[method], which a name goes through
ResolveMethod(m) == IF m.t = "str" THEN MethodFn(m.s) ELSE m

\* ValidationError with the check of as loosened to "at least 3 entries"
ValidationError_LooseAs(o) ==
    LET fields == getFields(o)
    IN  IF fields.t # "arr" \/ Len(fields.q) < 1 THEN "invalid fields"
        ELSE IF o.as.t # "arr" \/ Len(o.as.q) < 3 THEN "invalid as"
        ELSE IF o.method.t = "str" /\ o.method.s \notin KERNEL_METHODS
             THEN "invalid method name"
        ELSE IF ResolveMethod(o.method).t # "fn" THEN "invalid method"
        ELSE ""

\* the error the checks of fields, as and method throw, "" when they pass
ValidationError(o) ==
    LET fields == getFields(o)
    IN  IF fields.t # "arr" \/ Len(fields.q) < 1 THEN "invalid fields"
        ELSE IF o.as.t # "arr" \/ Len(o.as.q) # 3 THEN "invalid as"
        ELSE IF o.method.t = "str" /\ o.method.s \notin KERNEL_METHODS
             THEN "invalid method name"
        ELSE IF ResolveMethod(o.method).t # "fn" THEN "invalid method"
        ELSE ""

---------------------------------------------------------------------------
(* Initial states: a view and the options of one call of transform.        *)

Init ==
    \E S \in SUBSET (1..NumSourceRows) :
    \E f \in FieldsValues, a \in AsValues, m \in MethodValues :
    \E b \in BandwidthValues, s \in StepValues, e \in ExtentValues :
    \E z \in MinSizeValues, g \in GroupByValues :
        LET o == [minSize |-> z, as |-> a, fields |-> f, extent |-> e,
                  method |-> m, bandwidth |-> b, step |-> s, groupBy |-> g]
        IN  /\ Cardinality(Overrides(o)) <= MaxOverrides
            /\ rows = SelectRows(S, 1)
            /\ rows0 = SelectRows(S, 1)
            /\ userOptions = o
            /\ options = o
            /\ pc = "validate"
            /\ err = ""
            /\ extent = <<>>
            /\ bw = 0
            /\ seriesValues = <<>>
            /\ groups = <<>>
            /\ gi = 1
            /\ fi = 1
            /\ method = AbsentMethod
            /\ result = <<>>

\* transform, lines 42-60: merge the defaults, check fields, as and method
Validate ==
    /\ pc = "validate"
    /\ LET o == Assign(DEFAULT_OPTIONS, userOptions)
           e == ValidationError(o)
       IN  /\ options' = o
           /\ err' = e
           /\ pc' = IF e = "" THEN "extent" ELSE "failed"
           /\ method' = IF e = "" THEN ResolveMethod(o.method) ELSE method
    /\ UNCHANGED <<rows, rows0, userOptions, extent, bw, seriesValues, groups,
                   gi, fi, result>>

---------------------------------------------------------------------------
(* Extent, bandwidth and the sampling domain.                              *)

RECURSIVE ConcatRanges(_, _)
\* rangeArr after each(fields, ...): the ranges of the fields, concatenated
ConcatRanges(rs, fields) ==
    IF Len(fields) = 0 THEN <<>>
    ELSE Range(rs, Head(fields)) \o ConcatRanges(rs, Tail(fields))

\* extent after lines 62-70
ResolveExtent(o, rs) ==
    IF o.extent.t # "arr" \/ Len(o.extent.q) = 0
    THEN LET rangeArr == ConcatRanges(rs, getFields(o).q)
         IN  <<SeqMin(rangeArr), SeqMax(rangeArr)>>
    ELSE o.extent.q

\* max - min of the numbers of a column, 0 when it has none
Spread(col) ==
    LET obs == Observed(col)
    IN  IF Len(obs) = 0 THEN 0 ELSE SeqMax(obs) - SeqMin(obs)

\* the bandwidth rules of the registry: a positive number from the column
nrd(col) == Scale + Spread(col) \div 2
silverman(col) == Scale + Spread(col)
BandwidthRule(name, col) ==
    IF name = "silverman" THEN silverman(col) ELSE nrd(col)

\* bw(column) for a callable bw of the caller, here col => max(col) - min(col);
\* a callable is modelled by the value it returns
CallBandwidth(name, col) == Spread(col)

\* BandwidthColumn taking the column of the last configured field
BandwidthColumn_LastField(o, rs) ==
    GetColumn(rs, getFields(o).q[Len(getFields(o).q)])

\* the column bw is resolved from
BandwidthColumn(o, rs) == GetColumn(rs, getFields(o).q[1])

\* ResolveBandwidth with the number 0 taken as a usable bandwidth
ResolveBandwidth_ZeroAccepted(b, col) ==
    IF b.t = "str" /\ b.s \in BANDWIDTH_METHODS THEN BandwidthRule(b.s, col)
    ELSE IF b.t = "fn" THEN CallBandwidth(b.s, col)
    ELSE IF b.t # "num" \/ b.n < 0 THEN nrd(col)
    ELSE b.n

\* bw after lines 71-78
ResolveBandwidth(b, col) ==
    IF b.t = "str" /\ b.s \in BANDWIDTH_METHODS THEN BandwidthRule(b.s, col)
    ELSE IF b.t = "fn" THEN CallBandwidth(b.s, col)
    ELSE IF b.t # "num" \/ b.n <= 0 THEN nrd(col)
    ELSE b.n

\* Stride ignoring step
Stride_BandwidthOnly(o, b) == b

\* the second argument of getSeriesValues, line 79
Stride(o, b) == IF o.step.n # 0 THEN o.step.n ELSE b

RECURSIVE SeriesFrom(_, _, _)
SeriesFrom(x, hi, s) ==
    IF x > hi THEN <<>> ELSE <<x>> \o SeriesFrom(x + s, hi, s)

\* getSeriesValues never reaches extent[1] from below with such a stride
SeriesDiverges(e, s) == e[1] < e[2] /\ s <= 0

\* getSeriesValues(extent, stride): extent[0], then every stride up to extent[1]
getSeriesValues(e, s) ==
    IF e[1] = e[2] THEN <<e[1]>>
    ELSE IF e[1] > e[2] THEN <<>>
    ELSE SeriesFrom(e[1], e[2], s)

---------------------------------------------------------------------------
(* Groups.                                                                 *)

Undefined == [t |-> "undef", s |-> "", n |-> 0, q |-> <<>>]

\* the grouping key of a row: its values under the groupBy fields
KeyOf(row, groupBy) ==
    [i \in 1..Len(groupBy) |->
        IF groupBy[i] \in DOMAIN row THEN row[groupBy[i]] ELSE Undefined]

RECURSIVE AddToGroup(_, _, _)
\* gs with row added to the group of its key, a new last group when none has it
AddToGroup(gs, row, groupBy) ==
    IF Len(gs) = 0 THEN << <<row>> >>
    ELSE IF KeyOf(Head(gs)[1], groupBy) = KeyOf(row, groupBy)
         THEN <<Append(Head(gs), row)>> \o Tail(gs)
    ELSE <<Head(gs)>> \o AddToGroup(Tail(gs), row, groupBy)

RECURSIVE GroupRows(_, _, _)
GroupRows(gs, rs, groupBy) ==
    IF Len(rs) = 0 THEN gs
    ELSE GroupRows(AddToGroup(gs, Head(rs), groupBy), Tail(rs), groupBy)

\* partition(rows, groupBy), the groups in the order forIn visits them
partition(rs, groupBy) ==
    IF Len(groupBy) = 0 THEN << rs >> ELSE GroupRows(<<>>, rs, groupBy)

---------------------------------------------------------------------------
(* Density estimation and the output row.                                  *)

\* the gaussian kernel at |u| = 0, 0.5, 1, ... in fixed point, 0 beyond
GaussianTable == <<40, 35, 24, 13, 5, 2>>

\* kernel((x - s) / bw) in fixed point, d = x - s, b = bw # 0
KernelWeight(name, d, b) ==
    IF name = "gaussian"
    THEN LET i == (2 * Abs(d)) \div Abs(b) + 1
         IN  IF i <= Len(GaussianTable) THEN GaussianTable[i] ELSE 0
    ELSE IF Abs(d) < Abs(b) THEN Scale - (Scale * Abs(d)) \div Abs(b) ELSE 0

RECURSIVE SumWeights(_, _, _, _)
SumWeights(X, name, b, x) ==
    IF Len(X) = 0 THEN 0
    ELSE KernelWeight(name, x - Head(X).v, b) + SumWeights(Tail(X), name, b, x)

\* kernelDensityEstimation(X, method, bw)(x): sum / bw / X.length
Density(X, name, b, x) ==
    IF Len(X) = 0 \/ b = 0 \/ \E i \in 1..Len(X) : X[i].nan THEN NaN
    ELSE LET d == (SumWeights(X, name, b, x) * Scale) \div (Abs(b) * Len(X))
         IN  Number(IF b < 0 THEN -d ELSE d)

\* sizeValue >= options.minSize
AtLeast(d, minSize) == ~d.nan /\ d.v >= minSize

\* Pick copying every field of the first row
Pick_WholeRow(group, groupBy) ==
    IF Len(group) = 0 THEN EmptyRow ELSE group[1]

\* pick(group[0], groupBy)
Pick(group, groupBy) ==
    IF Len(group) = 0 THEN EmptyRow
    ELSE [k \in {groupBy[i] : i \in 1..Len(groupBy)} \cap DOMAIN group[1]
            |-> group[1][k]]

\* the body of each(seriesValues, ...), lines 97-103
AddSample(row, as, d, yValue, minSize) ==
    IF AtLeast(d, minSize)
    THEN Push(Push(row, as[2], yValue), as[3], d.v)
    ELSE row

RECURSIVE FillRow(_, _, _, _, _, _, _)
FillRow(row, as, X, name, b, series, minSize) ==
    IF Len(series) = 0 THEN row
    ELSE FillRow(AddSample(row, as, Density(X, name, b, Head(series)),
                           Head(series), minSize),
                 as, X, name, b, Tail(series), minSize)

\* the row of one group and one field, lines 87-103
BuildRow(group, field, o, name, b, series) ==
    LET as == o.as.q
        row == Put(Put(Put(Pick(group, o.groupBy.q), as[1], StrCell(field)),
                       as[2], ArrCell(<<>>)),
                   as[3], ArrCell(<<>>))
    IN  FillRow(row, as, GetColumn(group, field), name, b, series, o.minSize.n)

\* EmitRow putting the row in front
EmitRow_Prepend(res, row) == <<row>> \o res

\* result after result.push(row)
EmitRow(res, row) == Append(res, row)

\* ReplaceRows appending the result to the rows the view holds
ReplaceRows_Merge(rs, res) == rs \o res

\* dv.rows after dv.rows = result
ReplaceRows(rs, res) == res

---------------------------------------------------------------------------
(* The phases of transform after validation.                               *)

\* lines 62-70
Extent ==
    /\ pc = "extent"
    /\ extent' = ResolveExtent(options, rows)
    /\ pc' = "bandwidth"
    /\ UNCHANGED <<rows, rows0, userOptions, options, err, bw, seriesValues,
                   groups, gi, fi, method, result>>

\* lines 71-78
Bandwidth ==
    /\ pc = "bandwidth"
    /\ bw' = ResolveBandwidth(options.bandwidth, BandwidthColumn(options, rows))
    /\ pc' = "series"
    /\ UNCHANGED <<rows, rows0, userOptions, options, err, extent,
                   seriesValues, groups, gi, fi, method, result>>

\* lines 79-80
Series ==
    /\ pc = "series"
    /\ IF SeriesDiverges(extent, Stride(options, bw))
       THEN /\ pc' = "diverged"
            /\ seriesValues' = seriesValues
       ELSE /\ pc' = "partition"
            /\ seriesValues' = getSeriesValues(extent, Stride(options, bw))
    /\ result' = <<>>
    /\ UNCHANGED <<rows, rows0, userOptions, options, err, extent, bw, groups,
                   gi, fi, method>>

\* lines 82-83
Partition ==
    /\ pc = "partition"
    /\ groups' = partition(rows, options.groupBy.q)
    /\ gi' = 1
    /\ fi' = 1
    /\ pc' = IF Len(groups') = 0 THEN "commit" ELSE "estimate"
    /\ UNCHANGED <<rows, rows0, userOptions, options, err, extent, bw,
                   seriesValues, method, result>>

\* lines 86-105, one round of each(fields, ...) within forIn(groups, ...)
Estimate ==
    /\ pc = "estimate"
    /\ LET fields == getFields(options).q
           group == groups[gi]
       IN  /\ result' = EmitRow(result,
                   BuildRow(group, fields[fi], options, method.s, bw,
                            seriesValues))
           /\ IF fi < Len(fields)
              THEN /\ fi' = fi + 1
                   /\ gi' = gi
                   /\ pc' = pc
              ELSE /\ fi' = 1
                   /\ gi' = gi + 1
                   /\ pc' = IF gi < Len(groups) THEN pc ELSE "commit"
    /\ UNCHANGED <<rows, rows0, userOptions, options, err, extent, bw,
                   seriesValues, groups, method>>

\* line 108
Commit ==
    /\ pc = "commit"
    /\ rows' = ReplaceRows(rows, result)
    /\ pc' = "done"
    /\ UNCHANGED <<rows0, userOptions, options, err, extent, bw, seriesValues,
                   groups, gi, fi, method, result>>

Next ==
    \/ Validate
    \/ Extent
    \/ Bandwidth
    \/ Series
    \/ Partition
    \/ Estimate
    \/ Commit

Spec == Init /\ [][Next]_vars

---------------------------------------------------------------------------
(* Phases of an invocation.                                                *)

ConfigErrors ==
    {"invalid fields", "invalid as", "invalid method name", "invalid method"}

\* bw has been resolved
AfterBandwidth ==
    pc \in {"series", "partition", "estimate", "commit", "done", "diverged"}

\* seriesValues has been built
AfterSeries == pc \in {"partition", "estimate", "commit", "done"}

\* the configured fields and the column bw is resolved from
Fields == options.fields.q
FirstColumn == GetColumn(rows0, Fields[1])

---------------------------------------------------------------------------
(* C1: validation.                                                         *)

BadFields == userOptions.fields.t # "arr" \/ Len(userOptions.fields.q) = 0
BadAs ==
    \/ userOptions.as.t = "other"
    \/ userOptions.as.t = "arr" /\ Len(userOptions.as.q) # 3
BadMethod ==
    \/ userOptions.method.t = "str" /\ userOptions.method.s \notin KERNEL_METHODS
    \/ userOptions.method.t = "other"

\* C1: whenever fields is missing, not a sequence or empty, or as is not a
\* sequence of exactly 3 entries, or method is a name outside the kernel
\* registry or neither a name nor a callable, the transform ends with a
\* configuration error and produces no output.
C1_ConfigError ==
    (pc # "validate" /\ (BadFields \/ BadAs \/ BadMethod))
        => /\ pc = "failed"
           /\ err \in ConfigErrors
           /\ rows = rows0
           /\ result = <<>>

\* an as of 4 entries over a non-empty view has been rejected
C1_Witness ==
    /\ pc = "failed"
    /\ err = "invalid as"
    /\ userOptions.as.t = "arr" /\ Len(userOptions.as.q) = 4
    /\ ~BadFields
    /\ Len(rows0) > 0

---------------------------------------------------------------------------
(* C2: the view is written once, at the end.                               *)

\* C2: until the invocation is done the view holds the rows it held at the
\* call, whatever has been built so far and also when the invocation failed;
\* when it is done the view holds exactly the fully built result.
C2_WriteOnce ==
    /\ pc # "done" => rows = rows0
    /\ pc = "done" => /\ rows = result
                      /\ Len(result) = Len(groups) * Len(Fields)

\* a partial result exists and the view still holds its old rows
C2_Witness ==
    /\ pc = "estimate"
    /\ Len(result) >= 1
    /\ Len(result) < Len(groups) * Len(Fields)
    /\ Len(rows0) >= 1
    /\ rows = rows0

---------------------------------------------------------------------------
(* C6: bandwidth resolution falls back to nrd.                             *)

\* C6: no invocation fails after validation has passed, and the resolved
\* bandwidth is the named rule applied to the column for a known rule name,
\* the callable applied to the column for a callable, the number itself for a
\* positive number, and nrd applied to the column in every other case (unknown
\* name, non-positive number, wrong type).
C6_BandwidthFallback ==
    /\ pc = "failed" => ValidationError(options) # ""
    /\ AfterBandwidth =>
        LET b == options.bandwidth
        IN  /\ (b.t = "str" /\ b.s = "nrd") => bw = nrd(FirstColumn)
            /\ (b.t = "str" /\ b.s = "silverman") => bw = silverman(FirstColumn)
            /\ b.t = "fn" => bw = CallBandwidth(b.s, FirstColumn)
            /\ (b.t = "num" /\ b.n > 0) => bw = b.n
            /\ (\/ b.t = "str" /\ b.s \notin BANDWIDTH_METHODS
                \/ b.t = "num" /\ b.n <= 0
                \/ b.t = "other") => bw = nrd(FirstColumn)

\* the number 0 was given as bandwidth and nrd of a varying column was used
C6_Witness ==
    /\ pc = "series"
    /\ options.bandwidth = BwNum(0)
    /\ Spread(FirstColumn) > 0
    /\ bw = nrd(FirstColumn)

---------------------------------------------------------------------------
(* C8: the bandwidth is positive.                                          *)

\* C8: the bandwidth that reaches the estimator, and the sampling stride when
\* step is zero, is strictly greater than 0 whichever form the bandwidth
\* option took.
C8_PositiveBandwidth ==
    AfterBandwidth =>
        /\ bw > 0
        /\ options.step.n = 0 => Stride(options, bw) > 0

---------------------------------------------------------------------------
(* What the output is expected to be, computed from the input rows.        *)

SetOf(q) == {q[i] : i \in 1..Len(q)}

GroupBy == options.groupBy.q
As == options.as.q

RECURSIVE DistinctKeys(_, _, _)
\* the grouping keys of rs in the order each is first met, after those seen
DistinctKeys(seen, rs, groupBy) ==
    IF Len(rs) = 0 THEN seen
    ELSE LET k == KeyOf(Head(rs), groupBy)
         IN  DistinctKeys(IF \E i \in 1..Len(seen) : seen[i] = k
                          THEN seen ELSE Append(seen, k),
                          Tail(rs), groupBy)

\* the keys of the groups of the input; no grouping is one implicit group
ExpectedKeys ==
    IF Len(GroupBy) = 0 THEN << <<>> >> ELSE DistinctKeys(<<>>, rows0, GroupBy)

\* the input rows with grouping key k, in input order
Members(k) == SelectSeq(rows0, LAMBDA r : KeyOf(r, GroupBy) = k)

\* the index in the output of the row of group j and field f
RowIndex(j, f) == (j - 1) * Len(Fields) + f

\* the points of the domain whose density for samples X reaches minSize
Kept(X) ==
    SelectSeq(seriesValues,
              LAMBDA x : AtLeast(Density(X, method.s, bw, x), options.minSize.n))

\* the densities at the kept points
KeptDensities(X) ==
    [i \in 1..Len(Kept(X)) |-> Density(X, method.s, bw, Kept(X)[i]).v]

StrictlyIncreasing(q) == \A i \in 1..(Len(q) - 1) : q[i] < q[i + 1]

---------------------------------------------------------------------------
(* C3: y and size have equal length and size entries reach minSize.        *)

\* C3: after a successful transform, in every output row the sequences under
\* as[1] (y) and as[2] (size) have equal length and every entry of the size
\* sequence is >= minSize, for every as triple that passes validation.
C3_Shape ==
    pc = "done" =>
        \A i \in 1..Len(rows) :
            LET y == rows[i][As[2]].q
                size == rows[i][As[3]].q
            IN  /\ Len(y) = Len(size)
                /\ \A j \in 1..Len(size) : size[j] >= options.minSize.n

---------------------------------------------------------------------------
(* C4: one row per group and field, group-major, groups as first met.      *)

\* C4: after a successful transform the view holds (distinct groups) x
\* (fields) rows; the row at position (j, f), group-major, is the row of the
\* j-th grouping key in first-met order over the input rows and of the f-th
\* configured field, built from that group's rows in input order.
C4_GroupFieldOrder ==
    pc = "done" =>
        /\ Len(rows) = Len(ExpectedKeys) * Len(Fields)
        /\ \A j \in 1..Len(ExpectedKeys), f \in 1..Len(Fields) :
               rows[RowIndex(j, f)]
                   = BuildRow(Members(ExpectedKeys[j]), Fields[f], options,
                              method.s, bw, seriesValues)

\* 2 groups met in the order b, a, b and 2 fields gave 4 rows
C4_Witness ==
    /\ pc = "done"
    /\ Len(rows0) = 3
    /\ GroupBy = <<"g">>
    /\ As = <<"key", "y", "size">>
    /\ Len(Fields) = 2
    /\ Len(rows) = 4
    /\ rows[1].g = StrCell("b") /\ rows[2].g = StrCell("b")
    /\ rows[3].g = StrCell("a") /\ rows[4].g = StrCell("a")
    /\ rows[1].key = StrCell(Fields[1]) /\ rows[2].key = StrCell(Fields[2])
    /\ Len(rows[1].y.q) > 0

---------------------------------------------------------------------------
(* C5: the fields of an output row.                                        *)

\* the row of group j and field f has exactly the groupBy fields and the three
\* output fields, with the group's values, the field name, the kept samples in
\* increasing order and their densities
RowShape(j, f) ==
    LET row == rows[RowIndex(j, f)]
        group == Members(ExpectedKeys[j])
        X == GetColumn(group, Fields[f])
    IN  /\ DOMAIN row = SetOf(GroupBy) \cup SetOf(As)
        /\ \A k \in SetOf(GroupBy) :
               /\ k \in DOMAIN group[1]
               /\ row[k] = group[1][k]
        /\ row[As[1]] = StrCell(Fields[f])
        /\ row[As[2]] = ArrCell(Kept(X))
        /\ StrictlyIncreasing(Kept(X))
        /\ row[As[3]] = ArrCell(KeptDensities(X))

\* C5: after a successful transform every output row has exactly the groupBy
\* fields plus the three output fields, each groupBy field with the value of
\* the group's first row, as[0] the field name, as[1] the kept samples in
\* increasing order, as[2] their densities, for every validated options
\* record (also when names of as coincide with each other or with a groupBy
\* name, or a groupBy field is absent from the rows).
C5_RowShape ==
    pc = "done" =>
        /\ Len(rows) = Len(ExpectedKeys) * Len(Fields)
        /\ \A j \in 1..Len(ExpectedKeys), f \in 1..Len(Fields) : RowShape(j, f)

\* the names of as differ from each other and from every groupBy name
DistinctNames ==
    /\ Cardinality(SetOf(As)) = 3
    /\ SetOf(As) \cap SetOf(GroupBy) = {}

\* every groupBy field is present in the first row of group j
GroupFieldsPresent(j) ==
    \A k \in SetOf(GroupBy) :
        /\ Len(Members(ExpectedKeys[j])) > 0
        /\ k \in DOMAIN Members(ExpectedKeys[j])[1]

\* C5 amended: the same, when the three names of as are pairwise distinct and
\* none of them is a groupBy name, for every group whose first row has every
\* groupBy field.
C5_RowShapeDistinctNames ==
    (pc = "done" /\ DistinctNames) =>
        /\ Len(rows) = Len(ExpectedKeys) * Len(Fields)
        /\ \A j \in 1..Len(ExpectedKeys), f \in 1..Len(Fields) :
               GroupFieldsPresent(j) => RowShape(j, f)

\* a grouped transform with renamed output fields gave a row with samples
C5_Witness ==
    /\ pc = "done"
    /\ GroupBy = <<"g">>
    /\ As = <<"name", "x", "density">>
    /\ Len(rows) >= 2
    /\ Len(rows[1].x.q) >= 2
    /\ rows[1].g = rows0[1].g

---------------------------------------------------------------------------
(* C7: the sampling domain.                                                *)

\* the stride of the claim: step when non-zero, else the resolved bandwidth
ClaimedStride == IF options.step.n # 0 THEN options.step.n ELSE bw

\* the domain starts at a = extent[1], is strictly increasing with second
\* point a + s when that is within the extent, ends at or before b = extent[2]
\* and is the single point a when a = b
DomainShape ==
    LET a == extent[1]
        b == extent[2]
        s == ClaimedStride
    IN  /\ Len(seriesValues) >= 1
        /\ seriesValues[1] = a
        /\ StrictlyIncreasing(seriesValues)
        /\ seriesValues[Len(seriesValues)] <= b
        /\ (a + s <= b /\ a < b) =>
               (Len(seriesValues) >= 2 /\ seriesValues[2] = a + s)
        /\ a = b => seriesValues = <<a>>

---------------------------------------------------------------------------
(* C9: after validation the invocation completes.                          *)

\* C9: once validation has passed the invocation neither fails nor runs
\* without end: it goes on to replace the rows of the view.
C9_AlwaysCompletes ==
    (pc # "validate" /\ ValidationError(options) = "")
        => pc \notin {"failed", "diverged"}

---------------------------------------------------------------------------
(* C10: one extent and one bandwidth per invocation.                       *)

\* the values observed under any configured field in the input rows
ObservedValues ==
    {rows0[i][k].n : <<i, k>> \in
        {p \in (1..Len(rows0)) \X SetOf(Fields) :
            p[2] \in DOMAIN rows0[p[1]] /\ rows0[p[1]][p[2]].t = "num"}}

\* the extent of the claim: the caller's when non-empty, else the minimum and
\* maximum over the values of all fields together
ExtentAsClaimed ==
    IF userOptions.extent.t = "arr" /\ Len(userOptions.extent.q) > 0
    THEN extent = userOptions.extent.q
    ELSE IF ObservedValues = {} THEN extent = <<Infinity, -Infinity>>
    ELSE /\ extent[1] \in ObservedValues
         /\ extent[2] \in ObservedValues
         /\ \A x \in ObservedValues : extent[1] <= x /\ x <= extent[2]

====
